---- MODULE Spec2Model ----
(***************************************************************************)
(* Model of validator/aggregation.py: the severity extractor               *)
(* (_extract_severity), the rating derivation (_rating_from_score) and the *)
(* aggregator (aggregate_validator_results), together with the module      *)
(* level tables the aggregator reads.                                      *)
(*                                                                         *)
(* A call of aggregate_validator_results is a small process: it merges the *)
(* weight table and initialises its locals (Start), runs one iteration of  *)
(* the for loop per step (Iterate), and assembles the Verdict (Return).    *)
(* Several calls may be in progress at once; their steps interleave.       *)
(***************************************************************************)
EXTENDS Integers, Sequences, FiniteSets, TLC

VARIABLES
    DEFAULT_SEVERITY_WEIGHTS,   \* module global, aggregation.py:14
    RATING_THRESHOLDS,          \* module global, aggregation.py:28
    calls                       \* call id -> frame of one call in progress

vars == <<DEFAULT_SEVERITY_WEIGHTS, RATING_THRESHOLDS, calls>>

----------------------------------------------------------------------------
(* Bounds of the model.                                                    *)

MaxLen == 3          \* longest result sequence of the single-call model
MaxExtractLen == 2   \* longest result sequence of the input-shape model
MaxConcLen == 2      \* longest result sequence of each concurrent call

----------------------------------------------------------------------------
(* Module-level constants of aggregation.py.                               *)

DefaultTable ==
    [critical |-> 50, high |-> 25, medium |-> 10, low |-> 5, info |-> 0]

ThresholdTable == [clean |-> 90, needs_attention |-> 60]

CRITICAL_SEVERITY == "critical"

UNKNOWN_SEVERITY_WEIGHT == 10

MAX_SCORE == 100

----------------------------------------------------------------------------
(* Python values that a "severity" entry or attribute may hold, and str(). *)

StrVal(s) == [tag |-> "str", s |-> s, n |-> 0]
IntVal(n) == [tag |-> "int", s |-> "", n |-> n]
NoneVal == [tag |-> "none", s |-> "", n |-> 0]

Digits == <<"0", "1", "2", "3", "4", "5", "6", "7", "8", "9">>

RECURSIVE NatToStr(_)
NatToStr(n) ==
    IF n < 10 THEN Digits[n + 1]
    ELSE NatToStr(n \div 10) \o Digits[(n % 10) + 1]

\* str(v) for a str, an int or None
py_str(v) ==
    CASE v.tag = "str" -> v.s
      [] v.tag = "int" -> IF v.n < 0 THEN "-" \o NatToStr(-v.n) ELSE NatToStr(v.n)
      [] v.tag = "none" -> "None"

----------------------------------------------------------------------------
(* Result items: what _extract_severity can observe of an arbitrary        *)
(* object.  isMapping: isinstance(result, Mapping); hasKey: "severity" in  *)
(* result; key: result["severity"]; hasAttr: hasattr(result, "severity");  *)
(* attr: getattr(result, "severity"); isStr: isinstance(result, str);      *)
(* text: the string itself.                                                *)

Item(m, hk, kv, ha, av, st, tx) ==
    [isMapping |-> m, hasKey |-> hk, key |-> kv, hasAttr |-> ha, attr |-> av,
     isStr |-> st, text |-> tx]

Keyed(v) == Item(TRUE, TRUE, v, FALSE, NoneVal, FALSE, "")
KeyedAttr(v, a) == Item(TRUE, TRUE, v, TRUE, a, FALSE, "")
UnkeyedMapping == Item(TRUE, FALSE, NoneVal, FALSE, NoneVal, FALSE, "")
UnkeyedMappingAttr(a) == Item(TRUE, FALSE, NoneVal, TRUE, a, FALSE, "")
Carrier(a) == Item(FALSE, FALSE, NoneVal, TRUE, a, FALSE, "")
Bare(s) == Item(FALSE, FALSE, NoneVal, FALSE, NoneVal, TRUE, s)
BareAttr(s, a) == Item(FALSE, FALSE, NoneVal, TRUE, a, TRUE, s)
Opaque == Item(FALSE, FALSE, NoneVal, FALSE, NoneVal, FALSE, "")

\* Faulty variant: the attribute is tried before the mapping entry.
ExtractSeverityAttrFirst(result) ==
    IF result.hasAttr THEN py_str(result.attr)
    ELSE IF result.isMapping /\ result.hasKey THEN py_str(result.key)
    ELSE IF result.isStr THEN result.text
    ELSE "unknown"

_extract_severity(result) ==
    IF result.isMapping /\ result.hasKey THEN py_str(result.key)
    ELSE IF result.hasAttr THEN py_str(result.attr)
    ELSE IF result.isStr THEN result.text
    ELSE "unknown"

----------------------------------------------------------------------------
(* _rating_from_score, lines 58-68.  counts is the Counter of the loop.    *)

Get(f, k, d) == IF k \in DOMAIN f THEN f[k] ELSE d

\* Faulty variant: the rating is derived from the score alone.
RatingFromScoreOnly(score, counts, thresholds) ==
    IF score >= thresholds["clean"] THEN "clean"
    ELSE IF score >= thresholds["needs_attention"] THEN "needs_attention"
    ELSE "unsafe"

_rating_from_score(score, counts, thresholds) ==
    IF score >= thresholds["clean"] /\ Get(counts, CRITICAL_SEVERITY, 0) = 0
    THEN "clean"
    ELSE IF score >= thresholds["needs_attention"] THEN "needs_attention"
    ELSE "unsafe"

----------------------------------------------------------------------------
(* aggregate_validator_results, lines 95-130, statement by statement.      *)

EmptyTable == [k \in {} |-> 0]

\* An override argument: None, or a mapping from labels to integer weights.
NoOverride == [given |-> FALSE, table |-> EmptyTable]
Override(t) == [given |-> TRUE, table |-> t]

\* severity_weights or {}: None and the empty mapping are both falsy
OrEmpty(severity_weights) ==
    IF severity_weights.given /\ DOMAIN severity_weights.table # {}
    THEN severity_weights.table
    ELSE EmptyTable

\* Faulty variant: a supplied table replaces the defaults (severity_weights
\* or defaults).
MergeWeightsReplace(defaults, severity_weights) ==
    IF OrEmpty(severity_weights) # EmptyTable THEN OrEmpty(severity_weights)
    ELSE defaults

\* {**defaults, **(severity_weights or {})}
MergeWeights(defaults, severity_weights) ==
    LET o == OrEmpty(severity_weights)
    IN  [k \in DOMAIN defaults \cup DOMAIN o |->
            IF k \in DOMAIN o THEN o[k] ELSE defaults[k]]

\* Faulty variant: the fallback is read from the table's 'medium' entry.
WeightOfMediumFallback(weights, severity) ==
    Get(weights, severity, Get(weights, "medium", UNKNOWN_SEVERITY_WEIGHT))

\* weights.get(severity, UNKNOWN_SEVERITY_WEIGHT)
WeightOf(weights, severity) == Get(weights, severity, UNKNOWN_SEVERITY_WEIGHT)

\* d[k] += delta on a Counter or a defaultdict(int): a missing key starts at 0
AddAt(d, k, delta) ==
    [x \in DOMAIN d \cup {k} |-> IF x = k THEN Get(d, k, 0) + delta ELSE d[x]]

\* The locals after lines 95-102.
InitLocals(defaults, severity_weights) ==
    LET weights == MergeWeights(defaults, severity_weights)
    IN  [weights |-> weights,
         severity_counts |-> EmptyTable,
         penalty_by_severity |-> [severity \in DOMAIN weights |-> 0],
         total_penalty |-> 0]

\* Faulty variant: items after the first critical one are skipped.
LoopBodyStopAtCritical(locals, result) ==
    LET severity == _extract_severity(result)
        weight == WeightOf(locals.weights, severity)
    IN  IF Get(locals.severity_counts, CRITICAL_SEVERITY, 0) > 0 THEN locals
        ELSE [locals EXCEPT
                !.severity_counts = AddAt(@, severity, 1),
                !.penalty_by_severity = AddAt(@, severity, weight),
                !.total_penalty = @ + weight]

\* Faulty variant: the subtotal is assigned (=) instead of accumulated (+=).
LoopBodyAssignSubtotal(locals, result) ==
    LET severity == _extract_severity(result)
        weight == WeightOf(locals.weights, severity)
    IN  [locals EXCEPT
            !.severity_counts = AddAt(@, severity, 1),
            !.penalty_by_severity =
                [x \in DOMAIN @ \cup {severity} |-> IF x = severity THEN weight ELSE @[x]],
            !.total_penalty = @ + weight]

\* One iteration of the for loop, lines 104-110.
LoopBody(locals, result) ==
    LET severity == _extract_severity(result)
        weight == WeightOf(locals.weights, severity)
    IN  [locals EXCEPT
            !.severity_counts = AddAt(@, severity, 1),
            !.penalty_by_severity = AddAt(@, severity, weight),
            !.total_penalty = @ + weight]

\* Faulty variant: abs(MAX_SCORE - total_penalty) instead of max(0, ...).
HygieneScoreAbs(total_penalty) ==
    IF MAX_SCORE - total_penalty > 0 THEN MAX_SCORE - total_penalty
    ELSE total_penalty - MAX_SCORE

\* max(0, MAX_SCORE - total_penalty), line 112
HygieneScore(total_penalty) ==
    IF MAX_SCORE - total_penalty > 0 THEN MAX_SCORE - total_penalty ELSE 0

\* Faulty variant: the setdefault loop is missing.
CountsOutputObservedOnly(severity_counts, weights) == severity_counts

\* dict(severity_counts) with setdefault(severity, 0) for every table key,
\* lines 115-117
CountsOutput(severity_counts, weights) ==
    [k \in DOMAIN severity_counts \cup DOMAIN weights |-> Get(severity_counts, k, 0)]

\* Lines 112-130: the Verdict built from the locals after the loop.
MakeVerdict(locals, thresholds) ==
    LET hygiene_score == HygieneScore(locals.total_penalty)
    IN  [hygiene_score |-> hygiene_score,
         rating |-> _rating_from_score(hygiene_score, locals.severity_counts, thresholds),
         severity_counts |-> CountsOutput(locals.severity_counts, locals.weights),
         penalties |->
            [total_penalty |-> locals.total_penalty,
             by_severity |-> locals.penalty_by_severity,
             weights |-> locals.weights,
             unknown_weight |-> UNKNOWN_SEVERITY_WEIGHT],
         max_score |-> MAX_SCORE]

\* The locals after the loop has consumed the first n items of results.
RECURSIVE RunLoop(_, _, _)
RunLoop(locals, results, n) ==
    IF n = 0 THEN locals
    ELSE LoopBody(RunLoop(locals, results, n - 1), results[n])

\* One whole call, run alone, with the given module tables.
aggregate_validator_results(defaults, thresholds, results, severity_weights) ==
    MakeVerdict(RunLoop(InitLocals(defaults, severity_weights), results, Len(results)),
                thresholds)

----------------------------------------------------------------------------
(* Calls in progress.                                                      *)

NoLocals ==
    [weights |-> EmptyTable, severity_counts |-> EmptyTable,
     penalty_by_severity |-> EmptyTable, total_penalty |-> 0]

NoVerdict ==
    [hygiene_score |-> 0, rating |-> "none", severity_counts |-> EmptyTable,
     penalties |-> [total_penalty |-> 0, by_severity |-> EmptyTable,
                    weights |-> EmptyTable, unknown_weight |-> 0],
     max_score |-> 0]

\* The frame of a call that has been made and has not yet run a statement.
NewCall(results, severity_weights) ==
    [pc |-> "start", results |-> results, severity_weights |-> severity_weights,
     i |-> 0, locals |-> NoLocals, verdict |-> NoVerdict]

\* Faulty variant: weights aliases the module table and is updated in place
\* (weights = DEFAULT_SEVERITY_WEIGHTS; weights.update(severity_weights)).
StartAliased(c) ==
    /\ calls[c].pc = "start"
    /\ calls' = [calls EXCEPT
            ![c].pc = "loop",
            ![c].locals = InitLocals(DEFAULT_SEVERITY_WEIGHTS, calls[c].severity_weights)]
    /\ DEFAULT_SEVERITY_WEIGHTS' =
            MergeWeights(DEFAULT_SEVERITY_WEIGHTS, calls[c].severity_weights)
    /\ UNCHANGED RATING_THRESHOLDS

\* Lines 95-102: merge the tables, create the counters.
Start(c) ==
    /\ calls[c].pc = "start"
    /\ calls' = [calls EXCEPT
            ![c].pc = "loop",
            ![c].locals = InitLocals(DEFAULT_SEVERITY_WEIGHTS, calls[c].severity_weights)]
    /\ UNCHANGED <<DEFAULT_SEVERITY_WEIGHTS, RATING_THRESHOLDS>>

\* Lines 104-110: the loop takes the next item.
Iterate(c) ==
    /\ calls[c].pc = "loop"
    /\ calls[c].i < Len(calls[c].results)
    /\ calls' = [calls EXCEPT
            ![c].i = @ + 1,
            ![c].locals = LoopBody(@, calls[c].results[calls[c].i + 1])]
    /\ UNCHANGED <<DEFAULT_SEVERITY_WEIGHTS, RATING_THRESHOLDS>>

\* Lines 112-130: the loop is exhausted; score, rating, Verdict.
Return(c) ==
    /\ calls[c].pc = "loop"
    /\ calls[c].i = Len(calls[c].results)
    /\ calls' = [calls EXCEPT
            ![c].pc = "done",
            ![c].verdict = MakeVerdict(calls[c].locals, RATING_THRESHOLDS)]
    /\ UNCHANGED <<DEFAULT_SEVERITY_WEIGHTS, RATING_THRESHOLDS>>

Next ==
    \/ \E c \in DOMAIN calls : Start(c)
    \/ \E c \in DOMAIN calls : Iterate(c)
    \/ \E c \in DOMAIN calls : Return(c)

SeqsUpTo(S, n) == UNION {[1..k -> S] : k \in 0..n}

InitGlobals ==
    /\ DEFAULT_SEVERITY_WEIGHTS = DefaultTable
    /\ RATING_THRESHOLDS = ThresholdTable

----------------------------------------------------------------------------
(* Single-call model: one call, inputs over labelled items of mixed shape  *)
(* and over override tables.                                               *)

Items ==
    {Keyed(StrVal("critical")), Bare("high"), Keyed(StrVal("medium")),
     Bare("low"), Carrier(StrVal("info")), Keyed(StrVal("custom")), Opaque}

Overrides ==
    {NoOverride,
     Override(EmptyTable),
     Override([k \in {"critical", "style"} |-> IF k = "critical" THEN 100 ELSE 3]),
     Override([k \in {"critical", "medium"} |-> IF k = "critical" THEN 5 ELSE 20]),
     Override([k \in {"low"} |-> -5])}

Init ==
    /\ InitGlobals
    /\ \E r \in SeqsUpTo(Items, MaxLen), o \in Overrides :
            calls = [c \in {1} |-> NewCall(r, o)]

Spec == Init /\ [][Next]_vars

----------------------------------------------------------------------------
(* Vocabulary of the properties.                                           *)

Done(c) == calls[c].pc = "done"

\* The labels of the items of a sequence, and how often a label occurs.
LabelsOf(results) == {_extract_severity(results[j]) : j \in DOMAIN results}

Occurrences(results, label) ==
    Cardinality({j \in DOMAIN results : _extract_severity(results[j]) = label})

NonNegative(severity_weights) ==
    \A k \in DOMAIN severity_weights.table : severity_weights.table[k] >= 0

\* The keys an override argument names (None names none).
OverrideKeys(severity_weights) ==
    IF severity_weights.given THEN DOMAIN severity_weights.table ELSE {}

DefaultLabels == {"critical", "high", "medium", "low", "info"}

\* w(label): the override's value, else the default's, else the fallback 10.
StatedWeight(severity_weights, label) ==
    IF label \in OverrideKeys(severity_weights) THEN severity_weights.table[label]
    ELSE IF label = "critical" THEN 50
    ELSE IF label = "high" THEN 25
    ELSE IF label = "medium" THEN 10
    ELSE IF label = "low" THEN 5
    ELSE IF label = "info" THEN 0
    ELSE 10

RECURSIVE StatedPenalty(_, _, _)
StatedPenalty(results, severity_weights, n) ==
    IF n = 0 THEN 0
    ELSE StatedPenalty(results, severity_weights, n - 1)
         + StatedWeight(severity_weights, _extract_severity(results[n]))

RECURSIVE SumOver(_, _)
SumOver(f, keys) ==
    IF keys = {} THEN 0
    ELSE LET k == CHOOSE x \in keys : TRUE IN f[k] + SumOver(f, keys \ {k})

RatingRank(rating) ==
    CASE rating = "clean" -> 2
      [] rating = "needs_attention" -> 1
      [] rating = "unsafe" -> 0

\* The Verdict of a call run alone from the module's initial tables.
Alone(results, severity_weights) ==
    aggregate_validator_results(DefaultTable, ThresholdTable, results, severity_weights)

----------------------------------------------------------------------------
(* C1: with an override of non-negative weights, the hygiene_score of a    *)
(* finished call is max(0, 100 - S), S the sum over the items of the       *)
(* weight of the item's label: the merged table's value when the label is  *)
(* a key of it, the fixed fallback 10 otherwise, whatever the override     *)
(* does to 'medium'.                                                       *)
ScoreIsClampedPenaltySum ==
    \A c \in DOMAIN calls :
        Done(c) /\ NonNegative(calls[c].severity_weights) =>
            LET S == StatedPenalty(calls[c].results, calls[c].severity_weights,
                                   Len(calls[c].results))
            IN  calls[c].verdict.hygiene_score = IF 100 - S > 0 THEN 100 - S ELSE 0

\* An unknown label next to 'medium' under an override that reweights 'medium'.
ScoreIsClampedPenaltySumWitness ==
    /\ Done(1)
    /\ "medium" \in OverrideKeys(calls[1].severity_weights)
    /\ calls[1].results = <<Keyed(StrVal("custom")), Keyed(StrVal("medium"))>>
    /\ calls[1].verdict.hygiene_score = 70

(* C2: the rating of a finished call is 'clean' iff the score is at least  *)
(* 90 and no item is labelled 'critical'; 'needs_attention' iff it is not  *)
(* 'clean' and the score is at least 60; 'unsafe' otherwise.               *)
RatingFollowsScoreAndCritical ==
    \A c \in DOMAIN calls :
        Done(c) =>
            LET v == calls[c].verdict
                clean == v.hygiene_score >= 90
                         /\ Occurrences(calls[c].results, "critical") = 0
            IN  /\ v.rating \in {"clean", "needs_attention", "unsafe"}
                /\ (v.rating = "clean") <=> clean
                /\ (v.rating = "needs_attention") <=> (~clean /\ v.hygiene_score >= 60)
                /\ (v.rating = "unsafe") <=> (~clean /\ v.hygiene_score < 60)

\* One critical item whose overridden weight leaves the score at 90 or more.
RatingFollowsScoreAndCriticalWitness ==
    /\ Done(1)
    /\ Occurrences(calls[1].results, "critical") = 1
    /\ calls[1].verdict.hygiene_score >= 90
    /\ calls[1].verdict.rating = "needs_attention"

(* C3: the Verdict of a finished call equals the Verdict of every          *)
(* permutation of its result sequence under the same override.             *)
VerdictIsOrderIndependent ==
    \A c \in DOMAIN calls :
        Done(c) =>
            \A p \in Permutations(DOMAIN calls[c].results) :
                Alone([j \in DOMAIN calls[c].results |-> calls[c].results[p[j]]],
                      calls[c].severity_weights) = calls[c].verdict

\* Three items with three different labels, one of them critical.
VerdictIsOrderIndependentWitness ==
    /\ Done(1)
    /\ Len(calls[1].results) = 3
    /\ Cardinality(LabelsOf(calls[1].results)) = 3
    /\ calls[1].results[1] = Keyed(StrVal("critical"))

(* C4: with an override of non-negative weights, appending any item to the *)
(* results of a finished call gives a Verdict whose hygiene_score is not   *)
(* greater and whose rating is not better (clean > needs_attention >       *)
(* unsafe).                                                                *)
OneMoreItemNeverImproves ==
    \A c \in DOMAIN calls :
        Done(c) /\ NonNegative(calls[c].severity_weights) =>
            \A x \in Items :
                LET more == Alone(Append(calls[c].results, x), calls[c].severity_weights)
                IN  /\ more.hygiene_score <= calls[c].verdict.hygiene_score
                    /\ RatingRank(more.rating) <= RatingRank(calls[c].verdict.rating)

\* A clean call that one more critical item moves to needs_attention at a
\* lower score.
OneMoreItemNeverImprovesWitness ==
    /\ Done(1)
    /\ NonNegative(calls[1].severity_weights)
    /\ Len(calls[1].results) = 2
    /\ calls[1].verdict.rating = "clean"
    /\ LET more == Alone(Append(calls[1].results, Keyed(StrVal("critical"))),
                         calls[1].severity_weights)
       IN  /\ more.rating = "needs_attention"
           /\ more.hygiene_score < calls[1].verdict.hygiene_score

(* C5: whatever integer weights the override holds, the hygiene_score of a *)
(* finished call lies in 0..100.                                           *)
ScoreWithinBounds ==
    \A c \in DOMAIN calls :
        Done(c) => calls[c].verdict.hygiene_score \in 0..100

(* C6: the keys of severity_counts are the keys of the merged table united *)
(* with the labels of the items; each value is the number of items with    *)
(* that label (0 for a table label that never occurs); the values sum to   *)
(* the number of items.                                                    *)
CountsCoverTableAndLabels ==
    \A c \in DOMAIN calls :
        Done(c) =>
            LET counts == calls[c].verdict.severity_counts
                r == calls[c].results
            IN  /\ DOMAIN counts =
                        DefaultLabels \cup OverrideKeys(calls[c].severity_weights)
                        \cup LabelsOf(r)
                /\ \A k \in DOMAIN counts : counts[k] = Occurrences(r, k)
                /\ SumOver(counts, DOMAIN counts) = Len(r)

\* A label outside the table is counted and a table label is present with 0.
CountsCoverTableAndLabelsWitness ==
    /\ Done(1)
    /\ Len(calls[1].results) = 2
    /\ "style" \in DOMAIN calls[1].verdict.severity_counts
    /\ calls[1].verdict.severity_counts["style"] = 0
    /\ calls[1].verdict.severity_counts["high"] = 0
    /\ "custom" \in DOMAIN calls[1].verdict.severity_counts
    /\ calls[1].verdict.severity_counts["custom"] = 2

(* C7: the effective table is a key-wise merge: every override key has the *)
(* override's value and every default key the override does not name keeps *)
(* its default value; penalties.weights is exactly that table, and a label *)
(* that only occurs in the items is in penalties.by_severity and not in    *)
(* penalties.weights.                                                      *)
WeightsAreKeywiseMerge ==
    \A c \in DOMAIN calls :
        Done(c) =>
            LET o == calls[c].severity_weights
                w == calls[c].verdict.penalties.weights
                by == calls[c].verdict.penalties.by_severity
            IN  /\ DOMAIN w = DefaultLabels \cup OverrideKeys(o)
                /\ \A k \in OverrideKeys(o) : w[k] = o.table[k]
                /\ \A k \in DefaultLabels \ OverrideKeys(o) : w[k] = DefaultTable[k]
                /\ \A k \in LabelsOf(calls[c].results) \ DOMAIN w :
                        k \in DOMAIN by /\ by[k] = 10 * Occurrences(calls[c].results, k)

\* {critical: 100}: one critical item clamps the score to 0, 'low' keeps 5,
\* and the unknown label is penalised without entering the table.
WeightsAreKeywiseMergeWitness ==
    /\ Done(1)
    /\ calls[1].severity_weights.given
    /\ calls[1].results =
            <<Keyed(StrVal("critical")), Bare("low"), Keyed(StrVal("custom"))>>
    /\ calls[1].verdict.penalties.weights["critical"] = 100
    /\ calls[1].verdict.penalties.weights["low"] = 5
    /\ calls[1].verdict.penalties.by_severity["low"] = 5
    /\ calls[1].verdict.hygiene_score = 0
    /\ "custom" \notin DOMAIN calls[1].verdict.penalties.weights

(* C10: penalties.by_severity has the keys of severity_counts; each        *)
(* subtotal is the count times the weight of the label (merged table or    *)
(* fallback 10); total_penalty is the sum of the subtotals, unclamped.     *)
PenaltiesMatchCounts ==
    \A c \in DOMAIN calls :
        Done(c) =>
            LET v == calls[c].verdict
                by == v.penalties.by_severity
            IN  /\ DOMAIN by = DOMAIN v.severity_counts
                /\ \A s \in DOMAIN by :
                        by[s] = v.severity_counts[s]
                                * StatedWeight(calls[c].severity_weights, s)
                /\ v.penalties.total_penalty = SumOver(by, DOMAIN by)

\* A total above 100 under a score of 0, with a repeated label.
PenaltiesMatchCountsWitness ==
    /\ Done(1)
    /\ calls[1].verdict.penalties.total_penalty > 100
    /\ calls[1].verdict.hygiene_score = 0
    /\ calls[1].verdict.severity_counts["critical"] = 2
    /\ "unknown" \in DOMAIN calls[1].verdict.severity_counts
    /\ calls[1].verdict.severity_counts["unknown"] = 1

----------------------------------------------------------------------------
(* Input-shape model: one call whose items range over every shape the      *)
(* extractor distinguishes, with string, integer and None severities.      *)

ExtractValues == {StrVal("high"), IntVal(-12), NoneVal}

ExtractTexts == {"low", "critical"}

Shapes ==
    {Keyed(v) : v \in ExtractValues}
    \cup {KeyedAttr(v, a) : v \in ExtractValues, a \in ExtractValues}
    \cup {UnkeyedMapping}
    \cup {UnkeyedMappingAttr(a) : a \in ExtractValues}
    \cup {Carrier(a) : a \in ExtractValues}
    \cup {Bare(s) : s \in ExtractTexts}
    \cup {BareAttr(s, a) : s \in ExtractTexts, a \in ExtractValues}
    \cup {Opaque}

InitExtract ==
    /\ InitGlobals
    /\ \E r \in SeqsUpTo(Shapes, MaxExtractLen) :
            calls = [c \in {1} |-> NewCall(r, NoOverride)]

SpecExtract == InitExtract /\ [][Next]_vars

\* What converting a severity value to a string is stated to give.
StatedStr(v) ==
    CASE v.tag = "str" -> v.s
      [] v = NoneVal -> "None"
      [] v = IntVal(-12) -> "-12"

\* The stated resolution order, first match wins.
StatedLabel(item) ==
    CASE item.isMapping /\ item.hasKey -> StatedStr(item.key)
      [] ~(item.isMapping /\ item.hasKey) /\ item.hasAttr -> StatedStr(item.attr)
      [] ~(item.isMapping /\ item.hasKey) /\ ~item.hasAttr /\ item.isStr -> item.text
      [] OTHER -> "unknown"

IsPlainString(item) == item.isStr /\ ~item.hasAttr /\ ~item.isMapping

(* C8: the label of an item is resolved in the order keyed 'severity'      *)
(* entry (as a string), 'severity' attribute (as a string), the string     *)
(* itself, 'unknown': after i items the counter holds, for every label,    *)
(* the number of the first i items that resolve to it; and a bare string   *)
(* aggregates like the keyed record carrying the same label.               *)
ExtractionOrder ==
    \A c \in DOMAIN calls :
        LET r == calls[c].results
            counts == calls[c].locals.severity_counts
            stated == {StatedLabel(r[j]) : j \in 1..calls[c].i}
        IN  /\ calls[c].pc \in {"loop", "done"} =>
                /\ DOMAIN counts = stated
                /\ \A label \in stated :
                        counts[label] =
                            Cardinality({j \in 1..calls[c].i : StatedLabel(r[j]) = label})
            /\ Done(c) =>
                /\ \A j \in DOMAIN r :
                        IsPlainString(r[j]) =>
                            Alone([r EXCEPT ![j] = Keyed(StrVal(r[j].text))],
                                  calls[c].severity_weights) = calls[c].verdict
                /\ (\A j \in DOMAIN r : IsPlainString(r[j])) =>
                        Alone([j \in DOMAIN r |-> Keyed(StrVal(r[j].text))],
                              calls[c].severity_weights) = calls[c].verdict

\* A mapping with neither the entry nor the attribute, then a bare string.
ExtractionOrderWitness ==
    /\ Done(1)
    /\ calls[1].results = <<UnkeyedMapping, Bare("critical")>>
    /\ calls[1].verdict.severity_counts["unknown"] = 1
    /\ calls[1].verdict.severity_counts["critical"] = 1

----------------------------------------------------------------------------
(* Concurrent model: two calls, each with its own inputs, whose steps      *)
(* interleave in every way.                                                *)

ConcItems == {Keyed(StrVal("critical")), Bare("custom")}

ConcOverrides ==
    {NoOverride,
     Override([k \in {"critical", "medium"} |-> IF k = "critical" THEN 5 ELSE 20])}

InitConc ==
    /\ InitGlobals
    /\ \E r1 \in SeqsUpTo(ConcItems, MaxConcLen), r2 \in SeqsUpTo(ConcItems, MaxConcLen),
          o1 \in ConcOverrides, o2 \in ConcOverrides :
            calls = [c \in {1, 2} |-> IF c = 1 THEN NewCall(r1, o1) ELSE NewCall(r2, o2)]

SpecConc == InitConc /\ [][Next]_vars

(* C9: no state is held across or between calls: every finished call has   *)
(* the Verdict the same call returns when run alone; the default weight    *)
(* table and the rating thresholds have their initial values in every      *)
(* state; and no step changes the inputs of any call.                      *)
CallsAreIndependent ==
    /\ [](/\ DEFAULT_SEVERITY_WEIGHTS = DefaultTable
          /\ RATING_THRESHOLDS = ThresholdTable
          /\ \A c \in DOMAIN calls :
                Done(c) =>
                    calls[c].verdict = Alone(calls[c].results, calls[c].severity_weights))
    /\ [][\A c \in DOMAIN calls :
            /\ calls'[c].results = calls[c].results
            /\ calls'[c].severity_weights = calls[c].severity_weights]_vars

\* One call has returned while the other, under another override, is in the
\* middle of its loop.
CallsAreIndependentWitness ==
    /\ Done(1)
    /\ Len(calls[1].results) = 2
    /\ calls[2].pc = "loop"
    /\ calls[2].i = 1
    /\ Len(calls[2].results) = 2
    /\ calls[1].severity_weights # calls[2].severity_weights
    /\ calls[1].verdict.rating = "needs_attention"

====
